---- MODULE Spec2Model ----
(***************************************************************************)
(* Resumable batch scraper of src/process_data_with_resume.py: main() walks *)
(* a list of compound identifiers, scrapes one page per identifier,        *)
(* classifies it, saves a JSON checkpoint every 5th index and on Ctrl+C,   *)
(* and can resume from the checkpoint on the next start.                   *)
(*                                                                         *)
(* Python indices are 0-based and kept so: ids[k] of the code is           *)
(* ids[k + 1] here.                                                        *)
(***************************************************************************)
EXTENDS Integers, Sequences, FiniteSets, TLC

\* ------------------------------------------------------------- bounds
MaxIds == 10
MaxRuns == 2
MaxForeignIds == 5
MaxSaved == 4
MaxRows == 2

\* ------------------------------------------------ values of the program
\* Python's None inside results (outcomes are 0, 1 or None).
None == -1
\* None of a local holding text (bbb_permeation, gi_absorption).
NoText == "<None>"
\* `(i + 1) % 5 == 0`
K == 5
\* load_progress returning None
NoProgress == [kind |-> "none"]
\* the six keys save_progress writes
AllKeys == {"timestamp", "total_compounds", "processed_count", "ids", "results", "current_index"}

\* ------------------------------------------------------ small helpers
Iota(n) == [k \in 1..n |-> k]

\* ------------------------------------------------ the remote site
\* One page per identifier; the fetcher is deterministic: the same
\* identifier always yields the same response.
BBBRow(v) == [cells |-> 3, name |-> "Blood Brain Barrier permeation", value |-> v]

GIRow(v) == [cells |-> 3, name |-> "Gastrointestinal absorption", value |-> v]

OtherRow(v) == [cells |-> 3, name |-> "P-glycoprotein substrate", value |-> v]

ShortRow(v) == [cells |-> 2, name |-> "Blood Brain Barrier permeation", value |-> v]

OkPage(rows) == [status |-> "ok", contact2 |-> TRUE, table |-> TRUE, rows |-> rows]

\* The texts the two value cells of a page can hold: the four the classifier
\* knows, and others (another case, an empty cell, an unknown word).
FieldValues == <<"Yes", "No", "High", "Low", "yes", "HIGH", "", "Unknown">>

\* Identifiers from FieldBase on name the pages that hold both rows, one page
\* for every pair of texts.
FieldBase == 100

FieldPage(n) ==
    OkPage(<<BBBRow(FieldValues[((n \div Len(FieldValues)) % Len(FieldValues)) + 1]),
             GIRow(FieldValues[(n % Len(FieldValues)) + 1])>>)

Remote(compound_id) ==
    IF compound_id >= FieldBase THEN FieldPage(compound_id - FieldBase) ELSE
    CASE compound_id % 8 = 1 -> OkPage(<<BBBRow("Yes"), OtherRow("No"), GIRow("High")>>)
      [] compound_id % 8 = 2 -> OkPage(<<GIRow("Low"), BBBRow("No")>>)
      [] compound_id % 8 = 3 -> [status |-> "timeout", contact2 |-> FALSE, table |-> FALSE, rows |-> <<>>]
      [] compound_id % 8 = 4 -> OkPage(<<BBBRow("Yes"), GIRow("Low")>>)
      [] compound_id % 8 = 5 -> OkPage(<<OtherRow("Yes"), BBBRow("Yes")>>)
      [] compound_id % 8 = 6 -> [status |-> "ok", contact2 |-> FALSE, table |-> FALSE, rows |-> <<>>]
      [] compound_id % 8 = 7 -> OkPage(<<ShortRow("No"), BBBRow("No"), BBBRow("Yes"), GIRow("High")>>)
      [] OTHER -> [status |-> "http_error", contact2 |-> FALSE, table |-> FALSE, rows |-> <<>>]

\* ------------------------------------------------ scrape_admet_properties
\* The loop over table rows: the last matching row wins, a row with fewer
\* than 3 cells is skipped, and the GI test is an elif of the BBB test.
RECURSIVE ScanRows(_, _, _)
ScanRows(rows, bbb_permeation, gi_absorption) ==
    IF rows = <<>> THEN <<bbb_permeation, gi_absorption>>
    ELSE LET row == Head(rows) IN
         IF row.cells >= 3
         THEN IF row.name = "Blood Brain Barrier permeation"
              THEN ScanRows(Tail(rows), row.value, gi_absorption)
              ELSE IF row.name = "Gastrointestinal absorption"
                   THEN ScanRows(Tail(rows), bbb_permeation, row.value)
                   ELSE ScanRows(Tail(rows), bbb_permeation, gi_absorption)
         ELSE ScanRows(Tail(rows), bbb_permeation, gi_absorption)

\* mutant: `or` in the test for class 1
ClassifyEither(bbb_permeation, gi_absorption) ==
    IF bbb_permeation = "No" /\ gi_absorption = "Low" THEN 0
    ELSE IF bbb_permeation = "Yes" \/ gi_absorption = "High" THEN 1
    ELSE 0

\* lines 110-117: the classification of the two texts
Classify(bbb_permeation, gi_absorption) ==
    IF bbb_permeation = "No" /\ gi_absorption = "Low" THEN 0
    ELSE IF bbb_permeation = "Yes" /\ gi_absorption = "High" THEN 1
    ELSE 0

\* mutant: a field that was not found falls through to the default class
ParsePageDefaultsMissing(page) ==
    IF ~page.contact2 THEN None
    ELSE IF ~page.table THEN None
    ELSE LET found == ScanRows(page.rows, NoText, NoText) IN
         Classify(found[1], found[2])

\* lines 73-117: the page of a successful response
ParsePage(page) ==
    IF ~page.contact2 THEN None
    ELSE IF ~page.table THEN None
    ELSE LET found == ScanRows(page.rows, NoText, NoText) IN
         IF found[1] = NoText \/ found[2] = NoText THEN None
         ELSE Classify(found[1], found[2])

scrape_admet_properties(compound_id) ==
    LET page == Remote(compound_id) IN
    IF page.status # "ok" THEN None ELSE ParsePage(page)

\* ------------------------------------------------ checkpoint file
AbsentFile == [kind |-> "absent"]

\* open(progress_file, 'w') has truncated the file and json.dump has not
\* finished: the bytes on disk are a proper prefix of a JSON document.
TruncatedFile == [kind |-> "truncated"]

\* json.dump renders None as null and the integers as themselves
JsonValue(r) == IF r = None THEN "null" ELSE IF r = 0 THEN "0" ELSE "1"

\* mutant: null read back as the class 0
PyValueNullIsZero(t) == IF t = "1" THEN 1 ELSE 0

\* json.load reads null back as None
PyValue(t) == IF t = "null" THEN None ELSE IF t = "0" THEN 0 ELSE 1

JsonList(results) == [k \in 1..Len(results) |-> JsonValue(results[k])]

PyList(texts) == [k \in 1..Len(texts) |-> PyValue(texts[k])]

\* mutant: `results[:current_index]` written instead of results
ProgressDataDropsLast(ids, results, current_index) ==
    [kind |-> "json", keys |-> AllKeys, ids |-> ids,
     results |-> JsonList(SubSeq(results, 1, current_index)),
     current_index |-> current_index, processed_count |-> current_index + 1,
     total_compounds |-> Len(ids)]

\* progress_data of save_progress, serialised
ProgressData(ids, results, current_index) ==
    [kind |-> "json", keys |-> AllKeys, ids |-> ids, results |-> JsonList(results),
     current_index |-> current_index, processed_count |-> current_index + 1,
     total_compounds |-> Len(ids)]

\* mutant: `len(results)` passed instead of `len(results) - 1`
HandlerCursorLen(results) == Len(results)

\* the cursor the interrupt handler passes to save_progress
HandlerCursor(results) == Len(results) - 1

\* mutant: `i % 5 == 0`
IsSavePointOffByOne(i) == i % K = 0

\* mutant: `(i + 1) % 10 == 0`
IsSavePointEveryTen(i) == (i + 1) % (2 * K) = 0

\* `(i + 1) % 5 == 0`
IsSavePoint(i) == (i + 1) % K = 0

\* `while len(results) <= i: results.append(None)`
Pad(results, i) ==
    IF Len(results) > i THEN results
    ELSE results \o [k \in 1..(i + 1 - Len(results)) |-> None]

\* ------------------------------------------------ result file
\* mutant: `results[i] if i < len(results) and results[i] else "Error"`:
\* the class 0 is falsy and is rendered as the marker
RenderFalsy(results, k) ==
    IF k < Len(results) /\ results[k + 1] # None /\ results[k + 1] # 0
    THEN "1"
    ELSE "Error"

\* `result = results[i] if i < len(results) and results[i] is not None else "Error"`
Render(results, k) ==
    IF k < Len(results) /\ results[k + 1] # None
    THEN (IF results[k + 1] = 0 THEN "0" ELSE "1")
    ELSE "Error"

CsvRows(ids, results) == [k \in 1..Len(ids) |-> <<ids[k], Render(results, k - 1)>>]

AbsentCsv == [kind |-> "absent", rows |-> <<>>]

\* a file opened for writing whose rows were not written: no header line
EmptyCsv == [kind |-> "empty", rows |-> <<>>]

\* the identifier file as first supplied: one column
InputCsv(ids) == [kind |-> "table", rows |-> [k \in 1..Len(ids) |-> <<ids[k]>>]]

\* read_csv_ids: the first column of every row after the header
FirstColumn(rows) == [k \in 1..Len(rows) |-> rows[k][1]]

\* FileNotFoundError, or next(reader) raising StopIteration on a file with
\* no header line: both end in sys.exit(1)
CsvReadable(f) == f.kind = "table"

\* write_results_to_csv under one outcome of its file operations
\*   "ok"            every operation succeeds
\*   "backup_fails"  shutil.copy2 raises (only when csv_path exists)
\*   "open_fails"    open(csv_path, 'w') raises
\*   "write_fails"   a writerow raises after the file was truncated
\* every exception lands in the one except clause, which calls sys.exit(1).
WriteOutcomes(f) ==
    {"ok", "open_fails", "write_fails"} \cup (IF f.kind # "absent" THEN {"backup_fails"} ELSE {})

write_results_to_csv(io, f, b, ids, results) ==
    LET copied == IF f.kind # "absent" THEN f ELSE b IN
    CASE io = "backup_fails" -> [csv |-> f, backup |-> b, exit |-> 1]
      [] io = "open_fails" -> [csv |-> f, backup |-> copied, exit |-> 1]
      [] io = "write_fails" -> [csv |-> EmptyCsv, backup |-> copied, exit |-> 1]
      [] OTHER -> [csv |-> [kind |-> "table", rows |-> CsvRows(ids, results)],
                   backup |-> copied, exit |-> 0]

\* ------------------------------------------------------------ state
VARIABLES
    csv,                \* Output_csv/imppat_ids.csv (input and output of main)
    backup,             \* Output_csv/imppat_ids_backup.csv
    file,               \* scraping_progress.json
    pc,                 \* where the process is
    runs,               \* how many times the script was started
    progress,           \* main: progress
    resume,             \* main: the answer to the resume prompt
    ids,                \* main: ids
    results,            \* main: results
    start_index,        \* main: start_index
    i,                  \* main: loop index (start_index - 1 before the loop)
    result,             \* main: result of the current item
    successful_scrapes, \* main: counter
    failed_scrapes,     \* main: counter
    save_caller,        \* which call of save_progress is running
    save_index,         \* save_progress: current_index
    save_status,        \* how the handler's save_progress ended
    intr_at,            \* where KeyboardInterrupt was raised
    fetched,            \* indices requested from the site in this run
    cursors,            \* current_index values written since the run's start
    exit_code,          \* exit status of the last run
    r5_pc,              \* rule_of_5_extract.py: where its process is
    df,                 \* rule_of_5_extract.py main: df, the rows of INPUT_CSV
    r5_pos,             \* rule_of_5_extract.py main: position in `selected`
    rule_val,           \* rule_of_5_extract.py main: rule_val
    rule_results,       \* rule_of_5_extract.py main: rule_results
    out_csv             \* rule_of_5_extract.py: the rows of OUTPUT_CSV

vars == <<csv, backup, file, pc, runs, progress, resume, ids, results, start_index, i,
          result, successful_scrapes, failed_scrapes, save_caller, save_index,
          save_status, intr_at, fetched, cursors, exit_code,
          r5_pc, df, r5_pos, rule_val, rule_results, out_csv>>

\* the variables of process_data_with_resume.py
resume_script == <<csv, backup, file, pc, runs, progress, resume, ids, results,
                   start_index, i, result, successful_scrapes, failed_scrapes,
                   save_caller, save_index, save_status, intr_at, fetched, cursors,
                   exit_code>>

\* the variables of rule_of_5_extract.py
rule5 == <<r5_pc, df, r5_pos, rule_val, rule_results, out_csv>>

disk == <<csv, backup, file>>

locals == <<progress, resume, ids, results, start_index, i, result,
            successful_scrapes, failed_scrapes>>

saving == <<save_caller, save_index, save_status>>

\* the statements inside main's try block
TryPcs == {"loop", "scrape", "inflight", "pad", "store", "count", "save_check", "sleep"}

SavePcs == {"save_open", "save_dump"}

StoppedPcs == {"exited", "crashed", "killed"}

Inputs == {InputCsv(Iota(n)) : n \in 0..MaxIds} \cup {AbsentCsv}

\* rule_of_5_extract.py is not running
Rule5Idle ==
    /\ r5_pc = "idle"
    /\ df = <<>>
    /\ r5_pos = 0
    /\ rule_val = None
    /\ rule_results = <<>>
    /\ out_csv = <<>>

FreshProcess ==
    /\ pc = "start"
    /\ progress = NoProgress
    /\ resume = ""
    /\ ids = <<>>
    /\ results = <<>>
    /\ start_index = 0
    /\ i = -1
    /\ result = None
    /\ successful_scrapes = 0
    /\ failed_scrapes = 0
    /\ save_caller = "none"
    /\ save_index = -1
    /\ save_status = "none"
    /\ intr_at = "none"
    /\ fetched = <<>>
    /\ cursors = <<>>
    /\ exit_code = 0

Init ==
    /\ csv \in Inputs
    /\ backup = AbsentCsv
    /\ file = AbsentFile
    /\ runs = 1
    /\ FreshProcess
    /\ Rule5Idle

\* --------------------------------------------------------- start-up
\* the process is gone and its memory with it: only the files and the exit
\* status remain
Gone(where, status) ==
    /\ pc' = where
    /\ exit_code' = status
    /\ progress' = NoProgress
    /\ resume' = ""
    /\ ids' = <<>>
    /\ results' = <<>>
    /\ start_index' = 0
    /\ i' = -1
    /\ result' = None
    /\ successful_scrapes' = 0
    /\ failed_scrapes' = 0
    /\ save_caller' = "none"
    /\ save_index' = -1
    /\ save_status' = "none"
    /\ intr_at' = "none"
    /\ fetched' = <<>>
    /\ cursors' = <<>>

\* sys.exit(status), or return from main (status 0)
Exit(status) == Gone("exited", status)

\* an exception nothing catches: traceback, status 1
Crash == Gone("crashed", 1)

\* what a step of the start-up leaves alone when the process goes on
StartupRest == <<progress, result, successful_scrapes, failed_scrapes, saving, intr_at,
                 fetched, exit_code>>

\* mutant: the except clause returns an empty progress record, not None
load_progress_default(f) ==
    IF f.kind = "json" /\ "results" \in f.keys THEN f
    ELSE IF f.kind = "truncated" THEN ProgressData(<<>>, <<>>, -1)
    ELSE NoProgress

\* load_progress(progress_file): a file that is no JSON document, or a
\* document without 'results', raises inside the try and yields None.
load_progress(f) ==
    IF f.kind = "json" /\ "results" \in f.keys THEN f ELSE NoProgress

\* main, line 162
LoadProgress ==
    /\ pc = "start"
    /\ progress' = load_progress(file)
    /\ pc' = "decide"
    /\ UNCHANGED <<disk, runs, resume, ids, results, start_index, i, result,
                   successful_scrapes, failed_scrapes, saving, intr_at, fetched,
                   cursors, exit_code>>
    /\ UNCHANGED rule5

\* mutant: the resumed run starts at the checkpoint's cursor and repeats it
AdoptRepeatsCursor ==
    /\ ids' = progress.ids
    /\ results' = PyList(progress.results)
    /\ start_index' = progress.current_index
    /\ i' = progress.current_index - 1
    /\ cursors' = <<progress.current_index>>
    /\ pc' = "counters"

\* main, lines 171-174: the checkpoint is adopted as it is
Adopt ==
    /\ ids' = progress.ids
    /\ results' = PyList(progress.results)
    /\ start_index' = progress.current_index + 1
    /\ i' = progress.current_index
    /\ cursors' = <<progress.current_index>>
    /\ pc' = "counters"

\* main, lines 177-179 and 185-187: ids from the identifier file
StartFresh ==
    /\ ids' = FirstColumn(csv.rows)
    /\ results' = <<>>
    /\ start_index' = 0
    /\ i' = -1
    /\ cursors' = <<>>
    /\ pc' = "counters"

\* main, lines 164-182: a previous session was found
ResumePrompt ==
    /\ pc = "decide"
    /\ progress # NoProgress
    /\ \E answer \in {"y", "n"} :
         IF ~({"processed_count", "total_compounds", "timestamp"} \subseteq progress.keys)
         THEN \* KeyError while printing the summary, before the prompt
              /\ Crash
              /\ UNCHANGED disk
         ELSE IF answer = "y"
         THEN IF {"ids", "results", "current_index"} \subseteq progress.keys
              THEN /\ Adopt
                   /\ resume' = answer
                   /\ UNCHANGED <<disk, StartupRest>>
              ELSE /\ Crash
                   /\ UNCHANGED disk
         ELSE IF CsvReadable(csv)
              THEN /\ StartFresh
                   /\ resume' = answer
                   /\ file' = AbsentFile
                   /\ UNCHANGED <<csv, backup, StartupRest>>
              ELSE /\ Exit(1)
                   /\ UNCHANGED disk
    /\ UNCHANGED runs
    /\ UNCHANGED rule5

\* main, lines 183-187: no usable checkpoint
FreshStart ==
    /\ pc = "decide"
    /\ progress = NoProgress
    /\ IF CsvReadable(csv)
       THEN /\ StartFresh
            /\ UNCHANGED <<resume, StartupRest>>
       ELSE Exit(1)
    /\ UNCHANGED <<disk, runs>>
    /\ UNCHANGED rule5

\* mutant: the counters start at 0 in a resumed run too
InitCountersZero ==
    /\ pc = "counters"
    /\ successful_scrapes' = 0
    /\ failed_scrapes' = 0
    /\ pc' = "loop"
    /\ UNCHANGED <<disk, runs, progress, resume, ids, results, start_index, i, result,
                   saving, intr_at, fetched, cursors, exit_code>>
    /\ UNCHANGED rule5

\* main, lines 189-195
InitCounters ==
    /\ pc = "counters"
    /\ successful_scrapes' = Cardinality({k \in 1..Len(results) : results[k] # None})
    /\ failed_scrapes' = Cardinality({k \in 1..Len(results) : results[k] = None})
    /\ pc' = "loop"
    /\ UNCHANGED <<disk, runs, progress, resume, ids, results, start_index, i, result,
                   saving, intr_at, fetched, cursors, exit_code>>
    /\ UNCHANGED rule5

\* ---------------------------------------------------------- the loop
\* main, lines 199-201: `for i in range(start_index, len(ids))`
LoopNext ==
    /\ pc = "loop"
    /\ IF i + 1 < Len(ids)
       THEN /\ i' = i + 1
            /\ pc' = "scrape"
       ELSE /\ pc' = "finish"
            /\ UNCHANGED i
    /\ UNCHANGED <<disk, runs, progress, resume, ids, results, start_index, result,
                   successful_scrapes, failed_scrapes, saving, intr_at, fetched,
                   cursors, exit_code>>
    /\ UNCHANGED rule5

\* scrape_admet_properties, lines 60-67: the GET request leaves
FetchSend ==
    /\ pc = "scrape"
    /\ fetched' = Append(fetched, i)
    /\ pc' = "inflight"
    /\ UNCHANGED <<disk, runs, locals, saving, intr_at, cursors, exit_code>>
    /\ UNCHANGED rule5

\* scrape_admet_properties, lines 67-124, and the assignment of line 204
FetchReturn ==
    /\ pc = "inflight"
    /\ result' = scrape_admet_properties(ids[i + 1])
    /\ pc' = "pad"
    /\ UNCHANGED <<disk, runs, progress, resume, ids, results, start_index, i,
                   successful_scrapes, failed_scrapes, saving, intr_at, fetched,
                   cursors, exit_code>>
    /\ UNCHANGED rule5

\* main, lines 207-208
PadResults ==
    /\ pc = "pad"
    /\ results' = Pad(results, i)
    /\ pc' = "store"
    /\ UNCHANGED <<disk, runs, progress, resume, ids, start_index, i, result,
                   successful_scrapes, failed_scrapes, saving, intr_at, fetched,
                   cursors, exit_code>>
    /\ UNCHANGED rule5

\* main, line 210
StoreResult ==
    /\ pc = "store"
    /\ results' = [results EXCEPT ![i + 1] = result]
    /\ pc' = "count"
    /\ UNCHANGED <<disk, runs, progress, resume, ids, start_index, i, result,
                   successful_scrapes, failed_scrapes, saving, intr_at, fetched,
                   cursors, exit_code>>
    /\ UNCHANGED rule5

\* main, lines 212-216
CountResult ==
    /\ pc = "count"
    /\ IF result # None
       THEN /\ successful_scrapes' = successful_scrapes + 1
            /\ UNCHANGED failed_scrapes
       ELSE /\ failed_scrapes' = failed_scrapes + 1
            /\ UNCHANGED successful_scrapes
    /\ pc' = "save_check"
    /\ UNCHANGED <<disk, runs, progress, resume, ids, results, start_index, i, result,
                   saving, intr_at, fetched, cursors, exit_code>>
    /\ UNCHANGED rule5

\* main, lines 218-220: the call of save_progress(progress_file, ids, results, i)
SaveCheck ==
    /\ pc = "save_check"
    /\ IF IsSavePoint(i)
       THEN /\ save_caller' = "loop"
            /\ save_index' = i
            /\ pc' = "save_open"
       ELSE /\ pc' = "sleep"
            /\ UNCHANGED <<save_caller, save_index>>
    /\ UNCHANGED <<disk, runs, locals, save_status, intr_at, fetched, cursors, exit_code>>
    /\ UNCHANGED rule5

\* where save_progress returns to: line 221 in the loop, line 234 in the handler
AfterSave == IF save_caller = "loop" THEN "sleep" ELSE "prompt"

\* mutant: save_progress without its try: the error of open() propagates
SaveOpenRaises ==
    /\ pc = "save_open"
    /\ \E opened \in BOOLEAN :
         IF opened
         THEN /\ file' = TruncatedFile
              /\ pc' = "save_dump"
              /\ UNCHANGED <<locals, saving, intr_at, fetched, cursors, exit_code>>
         ELSE /\ Crash
              /\ UNCHANGED file
    /\ UNCHANGED <<csv, backup, runs>>
    /\ UNCHANGED rule5

\* save_progress, lines 44-53: open(progress_file, 'w') truncates the file;
\* when it raises, the except clause prints a warning and the call returns
SaveOpen ==
    /\ pc = "save_open"
    /\ \E opened \in BOOLEAN :
         IF opened
         THEN /\ file' = TruncatedFile
              /\ pc' = "save_dump"
              /\ UNCHANGED <<save_caller, save_status>>
         ELSE /\ pc' = AfterSave
              /\ save_status' = IF save_caller = "handler" THEN "failed" ELSE save_status
              /\ save_caller' = "none"
              /\ UNCHANGED file
    /\ UNCHANGED <<csv, backup, runs, locals, save_index, intr_at, fetched, cursors,
                   exit_code>>
    /\ UNCHANGED rule5

\* save_progress, lines 54-56: json.dump writes the document; when a write
\* raises, the file keeps the prefix written so far
SaveDump ==
    /\ pc = "save_dump"
    /\ \E written \in BOOLEAN :
         IF written
         THEN /\ file' = ProgressData(ids, results, save_index)
              /\ cursors' = Append(cursors, save_index)
              /\ save_status' = IF save_caller = "handler" THEN "saved" ELSE save_status
         ELSE /\ save_status' = IF save_caller = "handler" THEN "failed" ELSE save_status
              /\ UNCHANGED <<file, cursors>>
    /\ pc' = AfterSave
    /\ save_caller' = "none"
    /\ UNCHANGED <<csv, backup, runs, locals, save_index, intr_at, fetched, exit_code>>
    /\ UNCHANGED rule5

\* main, lines 223-228
Sleep ==
    /\ pc = "sleep"
    /\ pc' = "loop"
    /\ UNCHANGED <<disk, runs, locals, saving, intr_at, fetched, cursors, exit_code>>
    /\ UNCHANGED rule5

\* ------------------------------------------------------ interruption
\* Ctrl+C: Python raises KeyboardInterrupt between two bytecodes of the main
\* thread, or out of the blocking call it is in (requests.get, time.sleep,
\* the file write). It is no Exception, so the except clauses of
\* scrape_admet_properties and save_progress do not catch it: it unwinds to
\* main's `except KeyboardInterrupt`.
Interrupt ==
    /\ \/ pc \in TryPcs
       \/ pc \in SavePcs /\ save_caller = "loop"
    /\ intr_at' = pc
    /\ pc' = "handler"
    /\ save_caller' = "none"
    /\ UNCHANGED <<disk, runs, locals, save_index, save_status, fetched, cursors,
                   exit_code>>
    /\ UNCHANGED rule5

\* mutant: the handler passes the loop index i as current_index
HandlerSavesLoopIndex ==
    /\ pc = "handler"
    /\ save_caller' = "handler"
    /\ save_index' = i
    /\ pc' = "save_open"
    /\ UNCHANGED <<disk, runs, locals, save_status, intr_at, fetched, cursors, exit_code>>
    /\ UNCHANGED rule5

\* main, lines 230-233: save_progress(progress_file, ids, results, len(results) - 1)
Handler ==
    /\ pc = "handler"
    /\ save_caller' = "handler"
    /\ save_index' = HandlerCursor(results)
    /\ pc' = "save_open"
    /\ UNCHANGED <<disk, runs, locals, save_status, intr_at, fetched, cursors, exit_code>>
    /\ UNCHANGED rule5

\* mutant: the handler ends with sys.exit(130) and not with return
PromptPartialExits130 ==
    /\ pc = "prompt"
    /\ \E save_partial \in {"y", "n"} :
         IF save_partial = "y"
         THEN \E io \in WriteOutcomes(csv) :
                LET w == write_results_to_csv(io, csv, backup, ids, results) IN
                /\ csv' = w.csv
                /\ backup' = w.backup
                /\ Exit(IF w.exit = 0 THEN 130 ELSE w.exit)
         ELSE /\ Exit(130)
              /\ UNCHANGED <<csv, backup>>
    /\ UNCHANGED <<file, runs>>
    /\ UNCHANGED rule5

\* main, lines 234-241
PromptPartial ==
    /\ pc = "prompt"
    /\ \E save_partial \in {"y", "n"} :
         IF save_partial = "y"
         THEN \E io \in WriteOutcomes(csv) :
                LET w == write_results_to_csv(io, csv, backup, ids, results) IN
                /\ csv' = w.csv
                /\ backup' = w.backup
                /\ Exit(w.exit)
         ELSE /\ Exit(0)
              /\ UNCHANGED <<csv, backup>>
    /\ UNCHANGED <<file, runs>>
    /\ UNCHANGED rule5

\* --------------------------------------------------------- completion
\* mutant: main saves the whole run state once more before it writes the result
FinishPersists ==
    /\ pc = "finish"
    /\ file' = ProgressData(ids, results, Len(ids) - 1)
    /\ \E io \in WriteOutcomes(csv) :
         LET w == write_results_to_csv(io, csv, backup, ids, results) IN
         /\ csv' = w.csv
         /\ backup' = w.backup
         /\ IF w.exit = 0
            THEN /\ pc' = "cleanup"
                 /\ UNCHANGED <<locals, saving, intr_at, fetched, cursors, exit_code>>
            ELSE Exit(w.exit)
    /\ UNCHANGED runs
    /\ UNCHANGED rule5

\* mutant: the progress file is removed before the result is written
FinishRemovesFirst ==
    /\ pc = "finish"
    /\ file' = AbsentFile
    /\ \E io \in WriteOutcomes(csv) :
         LET w == write_results_to_csv(io, csv, backup, ids, results) IN
         /\ csv' = w.csv
         /\ backup' = w.backup
         /\ IF w.exit = 0
            THEN /\ pc' = "cleanup"
                 /\ UNCHANGED <<locals, saving, intr_at, fetched, cursors, exit_code>>
            ELSE Exit(w.exit)
    /\ UNCHANGED runs
    /\ UNCHANGED rule5

\* mutant: the exit of the failed write is lost and main goes on to clean up
FinishIgnoresFailure ==
    /\ pc = "finish"
    /\ \E io \in WriteOutcomes(csv) :
         LET w == write_results_to_csv(io, csv, backup, ids, results) IN
         /\ csv' = w.csv
         /\ backup' = w.backup
         /\ pc' = "cleanup"
         /\ UNCHANGED <<locals, saving, intr_at, fetched, cursors, exit_code>>
    /\ UNCHANGED <<file, runs>>
    /\ UNCHANGED rule5

\* main, lines 243-249
Finish ==
    /\ pc = "finish"
    /\ \E io \in WriteOutcomes(csv) :
         LET w == write_results_to_csv(io, csv, backup, ids, results) IN
         /\ csv' = w.csv
         /\ backup' = w.backup
         /\ IF w.exit = 0
            THEN /\ pc' = "cleanup"
                 /\ UNCHANGED <<locals, saving, intr_at, fetched, cursors, exit_code>>
            ELSE Exit(w.exit)
    /\ UNCHANGED <<file, runs>>
    /\ UNCHANGED rule5

\* main, lines 251-264
Cleanup ==
    /\ pc = "cleanup"
    /\ file' = AbsentFile
    /\ Exit(0)
    /\ UNCHANGED <<csv, backup, runs>>
    /\ UNCHANGED rule5

\* ------------------------------------------------------- environment
\* the process dies without running any handler (SIGKILL, power loss)
Kill ==
    /\ pc \notin StoppedPcs
    /\ Gone("killed", 137)
    /\ UNCHANGED <<disk, runs>>
    /\ UNCHANGED rule5

\* the operator runs the script again
Restart ==
    /\ pc \in StoppedPcs
    /\ runs < MaxRuns
    /\ runs' = runs + 1
    /\ pc' = "start"
    /\ exit_code' = 0
    /\ UNCHANGED <<disk, locals, saving, intr_at, fetched, cursors>>
    /\ UNCHANGED rule5

Next ==
    \/ LoadProgress
    \/ ResumePrompt
    \/ FreshStart
    \/ InitCounters
    \/ LoopNext
    \/ FetchSend
    \/ FetchReturn
    \/ PadResults
    \/ StoreResult
    \/ CountResult
    \/ SaveCheck
    \/ SaveOpen
    \/ SaveDump
    \/ Sleep
    \/ Interrupt
    \/ Handler
    \/ PromptPartial
    \/ Finish
    \/ Cleanup
    \/ Kill
    \/ Restart

Spec == Init /\ [][Next]_vars

\* ------------------------------------------- checkpoints of other origin
\* A scraping_progress.json the script finds but did not write in this
\* history: cut short, written by another tool or edited by hand.
Foreign(keys, idseq, res, ci) ==
    [kind |-> "json", keys |-> keys, ids |-> idseq, results |-> JsonList(res),
     current_index |-> ci, processed_count |-> ci + 1, total_compounds |-> Len(idseq)]

ForeignFiles ==
    { TruncatedFile,
      Foreign(AllKeys \ {"results"}, <<1, 2, 3>>, <<>>, 1),
      Foreign(AllKeys \ {"timestamp"}, <<1, 2, 3>>, <<1, 0>>, 1),
      Foreign(AllKeys \ {"ids"}, <<>>, <<1, 0>>, 1),
      Foreign(AllKeys, <<1, 2, 3, 4, 5, 6>>, <<1>>, 3),
      Foreign(AllKeys, <<1, 2>>, <<1, 0, None, 0>>, 1),
      Foreign(AllKeys, <<2, 1, 3, 4, 5, 6>>, <<0, 1>>, 1) }

InitForeign ==
    /\ csv \in {InputCsv(Iota(n)) : n \in 0..MaxForeignIds}
    /\ backup = AbsentCsv
    /\ file \in ForeignFiles
    /\ runs = 1
    /\ FreshProcess
    /\ Rule5Idle

SpecForeign == InitForeign /\ [][Next]_vars

\* ------------------------------------------- runs over one page of each kind
\* The identifier file names one compound whose page holds both rows, with
\* any pair of texts in the value cells.
InitClassifier ==
    /\ csv \in {InputCsv(<<FieldBase + n>>) :
                  n \in 0..(Len(FieldValues) * Len(FieldValues) - 1)}
    /\ backup = AbsentCsv
    /\ file = AbsentFile
    /\ runs = 1
    /\ FreshProcess
    /\ Rule5Idle

SpecClassifier == InitClassifier /\ [][Next]_vars

\* --------------------------------------- runs interrupted with any results
\* Ctrl+C has arrived at the top of the loop, after m of n items, with any
\* outcomes in results (the pages of the site are what they were for that
\* run); no periodic save has left a file.
InitRoundTrip ==
    \E n \in 0..MaxSaved : \E m \in 0..n :
        /\ csv = InputCsv(Iota(n))
        /\ backup = AbsentCsv
        /\ file = AbsentFile
        /\ runs = 1
        /\ pc = "handler"
        /\ progress = NoProgress
        /\ resume = ""
        /\ ids = Iota(n)
        /\ results \in [1..m -> {0, 1, None}]
        /\ start_index = 0
        /\ i = m - 1
        /\ result = (IF m = 0 THEN None ELSE results[m])
        /\ successful_scrapes = Cardinality({k \in 1..m : results[k] # None})
        /\ failed_scrapes = Cardinality({k \in 1..m : results[k] = None})
        /\ save_caller = "none"
        /\ save_index = -1
        /\ save_status = "none"
        /\ intr_at = "loop"
        /\ fetched = [k \in 1..m |-> k - 1]
        /\ cursors = <<>>
        /\ exit_code = 0
        /\ Rule5Idle

SpecRoundTrip == InitRoundTrip /\ [][Next]_vars

\* ================================================= rule_of_5_extract.py
\* The rows of a drug-likeness page. The typographic apostrophe of the
\* source text is written ' here.
LipinskiRow(v) == [cells |-> 3, name |-> "Lipinski's rule of 5", value |-> v]

ViolationsRow(v) ==
    [cells |-> 3, name |-> "Number of Lipinski's rule of 5 violations", value |-> v]

ShortLipinskiRow(v) == [cells |-> 2, name |-> "Lipinski's rule of 5", value |-> v]

WeightRow(v) == [cells |-> 3, name |-> "Molecular weight (g/mol)", value |-> v]

Rule5Page(rows) == [status |-> "ok", rows |-> rows]

\* One page per molecule identifier 1..Len(Rule5Pages).
Rule5Pages ==
    << Rule5Page(<<WeightRow("180.16"), LipinskiRow("Passed")>>),
       Rule5Page(<<LipinskiRow("Failed"), WeightRow("Passed")>>),
       Rule5Page(<<LipinskiRow("passed")>>),
       Rule5Page(<<LipinskiRow("FAILED")>>),
       Rule5Page(<<LipinskiRow("Unknown")>>),
       Rule5Page(<<WeightRow("Passed")>>),
       Rule5Page(<<ShortLipinskiRow("Passed")>>),
       [status |-> "timeout", rows |-> <<>>],
       Rule5Page(<<ViolationsRow("1"), LipinskiRow(""), LipinskiRow("Failed"),
                   LipinskiRow("Passed")>>),
       [status |-> "http_error", rows |-> <<>>] >>

RemoteRule5(mol_id) == Rule5Pages[mol_id]

\* `"Lipinski's rule of 5" in tds[0].get_text(strip=True)`: a containment test
NamesLipinski(name) ==
    name \in {"Lipinski's rule of 5", "Number of Lipinski's rule of 5 violations"}

\* str.lower() on the texts of the pages
Lower(value) ==
    CASE value \in {"Passed", "PASSED"} -> "passed"
      [] value \in {"Failed", "FAILED"} -> "failed"
      [] value = "Unknown" -> "unknown"
      [] OTHER -> value

\* mutant: the value is compared as it stands, without lower()
RuleValueExact(value) ==
    IF value = "Passed" THEN 1
    ELSE IF value = "Failed" THEN 0
    ELSE None

\* lines 35-39: what a matching row returns (None: no return, the loop goes on)
RuleValue(value) ==
    IF Lower(value) = "passed" THEN 1
    ELSE IF Lower(value) = "failed" THEN 0
    ELSE None

\* extract_rule_of_5(html), html given as the rows of its table
RECURSIVE extract_rule_of_5(_)
extract_rule_of_5(html) ==
    IF html = <<>> THEN None
    ELSE LET tr == Head(html) IN
         IF tr.cells >= 3 /\ NamesLipinski(tr.name) /\ RuleValue(tr.value) # None
         THEN RuleValue(tr.value)
         ELSE extract_rule_of_5(Tail(html))

\* process_id(mol_id): every exception of the request yields None
process_id(mol_id) ==
    LET resp == RemoteRule5(mol_id) IN
    IF resp.status # "ok" THEN None ELSE extract_rule_of_5(resp.rows)

\* `selected = df[df["ADMET_Classification"] == 1]`: the positions in df
RECURSIVE SelectFrom(_, _)
SelectFrom(rows, k) ==
    IF k > Len(rows) THEN <<>>
    ELSE IF rows[k].admet = 1 THEN <<k>> \o SelectFrom(rows, k + 1)
    ELSE SelectFrom(rows, k + 1)

Selected == SelectFrom(df, 1)

\* the rule value of row k after lines 72-74 (None by default)
RuleOfRow(k) ==
    IF \E j \in 1..Len(rule_results) : rule_results[j][1] = k
    THEN LET j == CHOOSE j \in 1..Len(rule_results) :
                    /\ rule_results[j][1] = k
                    /\ \A h \in (j + 1)..Len(rule_results) : rule_results[h][1] # k
         IN rule_results[j][2]
    ELSE None

\* main, lines 59-65
R5Start ==
    /\ r5_pc = "start"
    /\ rule_results' = <<>>
    /\ r5_pos' = 0
    /\ r5_pc' = "loop"
    /\ UNCHANGED <<df, rule_val, out_csv, resume_script>>

\* main, line 66: `for idx, row in selected.iterrows()`
R5Iterate ==
    /\ r5_pc = "loop"
    /\ r5_pc' = IF r5_pos < Len(Selected) THEN "process" ELSE "write"
    /\ UNCHANGED <<df, r5_pos, rule_val, rule_results, out_csv, resume_script>>

\* main, lines 67-68
R5ProcessId ==
    /\ r5_pc = "process"
    /\ rule_val' = process_id(df[Selected[r5_pos + 1]].id)
    /\ r5_pc' = "append"
    /\ UNCHANGED <<df, r5_pos, rule_results, out_csv, resume_script>>

\* main, lines 69-70
R5Append ==
    /\ r5_pc = "append"
    /\ rule_results' = Append(rule_results, <<Selected[r5_pos + 1], rule_val>>)
    /\ r5_pos' = r5_pos + 1
    /\ r5_pc' = "loop"
    /\ UNCHANGED <<df, rule_val, out_csv, resume_script>>

\* main, lines 71-77
R5Write ==
    /\ r5_pc = "write"
    /\ out_csv' = [k \in 1..Len(df) |-> <<df[k].id, df[k].admet, RuleOfRow(k)>>]
    /\ r5_pc' = "done"
    /\ UNCHANGED <<df, r5_pos, rule_val, rule_results, resume_script>>

NextRuleOf5 ==
    \/ R5Start
    \/ R5Iterate
    \/ R5ProcessId
    \/ R5Append
    \/ R5Write

\* the rows INPUT_CSV can hold: a molecule identifier and its ADMET class
InputRows == [id : 1..Len(Rule5Pages), admet : {0, 1}]

InitRuleOf5 ==
    /\ r5_pc = "start"
    /\ df \in UNION {[1..n -> InputRows] : n \in 0..MaxRows}
    /\ r5_pos = 0
    /\ rule_val = None
    /\ rule_results = <<>>
    /\ out_csv = <<>>
    /\ csv = AbsentCsv
    /\ backup = AbsentCsv
    /\ file = AbsentFile
    /\ runs = 1
    /\ FreshProcess

SpecRuleOf5 == InitRuleOf5 /\ [][NextRuleOf5]_vars

\* ============================================================ claims
\* what one uninterrupted run records for a list of identifiers
Expected(idseq) == [k \in 1..Len(idseq) |-> scrape_admet_properties(idseq[k])]

\* the indices requested from the site in this run, as a set
FetchedSet == {fetched[k] : k \in 1..Len(fetched)}

\* the handler has run and its save_progress wrote the checkpoint
HandlerSaved == pc = "prompt" /\ save_status = "saved"

\* C1: a run resumed from the checkpoint an interrupted run saved fetches no
\* index at or below the checkpoint's cursor, and the result it writes on
\* completion is the result of one uninterrupted run over the same ids.
C1_IdempotentResume ==
    (pc = "cleanup" /\ resume = "y") =>
        /\ \A k \in FetchedSet : k > progress.current_index
        /\ csv.rows = CsvRows(ids, Expected(ids))

\* where the loop is between two items: the last item is stored and the
\* request for the next one has not left
BetweenItems == {"loop", "scrape", "count", "save_check", "save_open", "save_dump", "sleep"}

\* the last item completed when the interrupt arrived (at "scrape" the loop
\* index already names the next item)
LastDone == IF intr_at = "scrape" THEN i - 1 ELSE i

\* C2: when Ctrl+C arrives between item i and item i + 1 (item i stored, the
\* request for item i + 1 not yet sent) and the handler's save succeeds, the
\* checkpoint on disk has current_index = i and holds the outcome of every
\* index <= i: the adopted outcome below start_index, the scraped one from
\* start_index on.
C2_NoDataLossOnInterrupt ==
    (HandlerSaved /\ intr_at \in BetweenItems) =>
        /\ file.kind = "json"
        /\ file.current_index = LastDone
        /\ Len(file.results) = LastDone + 1
        /\ \A k \in 0..LastDone :
             IF k < start_index
             THEN file.results[k + 1] = progress.results[k + 1]
             ELSE PyValue(file.results[k + 1]) = scrape_admet_properties(ids[k + 1])

C2_Witness ==
    /\ HandlerSaved
    /\ intr_at = "sleep"
    /\ resume = "y"
    /\ start_index >= 1
    /\ i > start_index

\* C3 as claimed: when the handler starts, every request sent in this run has
\* finished and its outcome is in results.
C3_Cooperative ==
    pc = "handler" =>
        \A k \in FetchedSet :
            /\ k < Len(results)
            /\ results[k + 1] = scrape_admet_properties(ids[k + 1])

\* C3 amended: Ctrl+C is observed at once, also while a request is in flight;
\* the request for item i is abandoned, no outcome of item i is recorded, and
\* the checkpoint the handler saves stops at i - 1, so that a resumed run
\* requests item i again.
C3_InterruptAbandonsRequest ==
    (pc \in {"handler", "save_open", "save_dump", "prompt"} /\ intr_at = "inflight") =>
        /\ fetched # <<>>
        /\ fetched[Len(fetched)] = i
        /\ Len(results) = i
        /\ HandlerSaved =>
             /\ file.kind = "json"
             /\ file.current_index = i - 1
             /\ Len(file.results) = i

C3_Witness ==
    /\ HandlerSaved
    /\ intr_at = "inflight"
    /\ i >= 1

\* C4: once the process has stopped, however it stopped, the checkpoint file
\* is absent or a complete JSON document.
C4_NeverPartiallyWritten ==
    pc \in StoppedPcs => file.kind \in {"absent", "json"}

\* C5: every checkpoint written holds, for every index <= current_index, the
\* outcome that processing that item produced.
C5_RunStateInvariant ==
    file.kind = "json" =>
        /\ Len(file.results) > file.current_index
        /\ \A k \in 0..file.current_index :
             PyValue(file.results[k + 1]) = scrape_admet_properties(file.ids[k + 1])

\* C6: the current_index values written to the checkpoint over a run, with the
\* cursor a resumed run loaded as the first of them, never decrease and never
\* exceed len(ids) - 1.
C6_MonotonicCursor ==
    \A j \in 1..Len(cursors) :
        /\ cursors[j] <= Len(ids) - 1
        /\ j > 1 => cursors[j - 1] <= cursors[j]

C6_Witness ==
    /\ resume = "y"
    /\ Len(cursors) >= 3
    /\ cursors[1] < cursors[2]
    /\ cursors[2] < cursors[3]
    /\ save_status = "saved"

\* C8: with a truncated checkpoint file load_progress returns None, the value
\* it returns when there is no file; the run then starts at index 0 with empty
\* results and the identifiers of the input file, and it never ends in an
\* uncaught exception.
C8_MalformedFallback ==
    /\ (pc = "decide" /\ file.kind = "truncated") =>
           /\ progress = NoProgress
           /\ progress = load_progress(AbsentFile)
    /\ (pc = "counters" /\ file.kind = "truncated") =>
           /\ resume = ""
           /\ start_index = 0
           /\ results = <<>>
           /\ ids = FirstColumn(csv.rows)
    /\ pc = "crashed" => file.kind # "truncated"

C8_Witness ==
    /\ pc = "counters"
    /\ file.kind = "truncated"
    /\ runs = 2
    /\ Len(ids) >= 5

\* a checkpoint that is a RunState: every key, cursor and results agree
ValidRunState(p) ==
    /\ AllKeys \subseteq p.keys
    /\ p.current_index >= -1
    /\ p.current_index <= Len(p.ids) - 1
    /\ Len(p.results) = p.current_index + 1

\* C7: a checkpoint, valid in itself, is adopted only when its identifiers are
\* the identifiers of the current input file, in the same order.
C7_ResumeValidatesIds ==
    (pc = "counters" /\ resume = "y" /\ ValidRunState(progress)) =>
        /\ CsvReadable(csv)
        /\ progress.ids = FirstColumn(csv.rows)

\* C9: a checkpoint that parses but is no valid RunState never makes the run
\* raise and is never adopted.
C9_InvalidCheckpointRejected ==
    /\ pc # "crashed"
    /\ (pc = "counters" /\ resume = "y") => ValidRunState(progress)

\* the number of items completed since the start of this run
Completed == i - start_index + 1

\* C10 as claimed: the loop calls save_progress exactly when the number of
\* items completed since the start of this run is a multiple of 5.
C10_SaveEveryKCompletions ==
    /\ (pc = "save_open" /\ save_caller = "loop") => Completed % K = 0
    /\ (pc = "sleep" /\ Completed % K = 0) => save_index = i

\* C10 amended: the loop calls save_progress, with current_index = i, exactly
\* after the items whose index i has (i + 1) a multiple of 5, whatever the
\* index the run started at.
C10_SaveEveryKthIndex ==
    /\ (pc = "save_open" /\ save_caller = "loop") => ((i + 1) % K = 0 /\ save_index = i)
    /\ pc = "sleep" => (save_index = i <=> (i + 1) % K = 0)

C10_Witness ==
    /\ pc = "save_open"
    /\ save_caller = "loop"
    /\ resume = "y"
    /\ Completed % K # 0

\* the checkpoint on disk holds an outcome for every identifier of the run
CoversAll == file.kind = "json" /\ file.current_index = Len(ids) - 1
             /\ Len(file.results) = Len(ids)

\* C11 (as stated): when the loop has completed and the final result is
\* written, a checkpoint covering every item (n outcomes, cursor n - 1) is on
\* disk.
C11_FinalCheckpoint == (pc = "cleanup" /\ Len(ids) > 0) => CoversAll

\* C11 (amended): completion writes no checkpoint. When the final result is
\* written the checkpoint on disk is the one the last save of the run left (or
\* the one the run resumed from), and it covers every item only if the last
\* index was a save point (n a multiple of 5) or the run resumed from a
\* checkpoint that was already complete.
C11_NoSaveOnCompletion ==
    pc = "cleanup" =>
        /\ file.kind = "json" =>
              /\ cursors # <<>>
              /\ file.current_index = cursors[Len(cursors)]
        /\ CoversAll => (Len(ids) % K = 0 \/ start_index = Len(ids))

\* a fresh run over three identifiers completed: no checkpoint was written
C11_Witness == pc = "cleanup" /\ Len(ids) = 3 /\ resume = "" /\ file.kind = "absent"

\* a step that deletes the checkpoint file
Removed == file.kind # "absent" /\ file'.kind = "absent"

\* C12 (as stated): the checkpoint file is removed only by the clean-up that
\* follows a full completion; no other step deletes an existing checkpoint.
C12_RemovedOnlyOnCompletion == [][Removed => pc = "cleanup"]_vars

\* C12 (amended): the checkpoint file is removed by the clean-up that follows
\* a full completion and by a declined resume whose identifier file was read;
\* no other step (interruption, a save, an input or write failure, the
\* partial-result prompt) deletes it.
C12_RemovedOnCompletionOrDecline ==
    [][Removed => \/ pc = "cleanup"
                  \/ pc = "decide" /\ progress # NoProgress /\ resume' = "n"
                     /\ CsvReadable(csv)]_vars

\* the operator declined to resume and the checkpoint is gone
C12_Witness == pc = "counters" /\ resume = "n" /\ file.kind = "absent"

\* a response that is a per-item failure: the request failed (timeout, HTTP
\* error status), or the page lacks the section, the table or one of the two
\* required rows
HasRow(page, name) ==
    \E k \in 1..Len(page.rows) : page.rows[k].cells >= 3 /\ page.rows[k].name = name

PageFails(page) ==
    \/ page.status # "ok"
    \/ ~page.contact2
    \/ ~page.table
    \/ ~HasRow(page, "Blood Brain Barrier permeation")
    \/ ~HasRow(page, "Gastrointestinal absorption")

\* the process is inside the loop or has left it by reaching its end
InLoop == pc \in TryPcs \cup SavePcs \cup {"finish", "cleanup"} /\ save_caller # "handler"

\* the number of items the loop has taken up in this run
Started == (IF pc = "scrape" THEN i ELSE i + 1) - start_index

\* C13: a per-item failure never aborts the run: the process never ends on an
\* uncaught exception; every item of this run whose response is a failure is
\* recorded as None at its index; and the loop goes on regardless: inside
\* the loop every index from start_index up to the current one was requested,
\* in order, and the loop ends only past the last index.
C13_PerItemFailuresContinue ==
    /\ pc # "crashed"
    /\ pc \notin StoppedPcs =>
         \A k \in start_index..(Len(results) - 1) :
            (k < Len(ids) /\ PageFails(Remote(ids[k + 1]))) => results[k + 1] = None
    /\ InLoop =>
         /\ Len(fetched) = Started
         /\ \A j \in 1..Len(fetched) : fetched[j] = start_index + j - 1
    /\ pc = "finish" => i + 1 >= Len(ids)

\* the third item timed out and the loop went on to classify the fourth
C13_Witness ==
    /\ pc = "sleep" /\ start_index = 0 /\ i = 3
    /\ Remote(ids[3]).status = "timeout"
    /\ results[3] = None /\ results[4] = 0

\* a step in which save_progress gives up: the open or the write raised, the
\* except clause printed the warning, and the call returns
FailedSave ==
    /\ pc \in SavePcs
    /\ pc' \notin {"save_dump", "handler", "killed"}
    /\ file' = file

\* C14: a failed checkpoint save is never fatal: the call returns to its
\* caller (the loop goes on to the pause before the next item, the interrupt
\* handler goes on to the partial-result prompt), the process does not exit,
\* and ids, results, the loop position and the result files are unchanged.
C14_FailedSaveNotFatal ==
    [][FailedSave =>
        /\ pc' = (IF save_caller = "loop" THEN "sleep" ELSE "prompt")
        /\ UNCHANGED <<ids, results, i, start_index, csv, backup, exit_code>>]_vars

\* the periodic save at index 4 left a truncated file and the loop went on
\* to the sixth item
C14_Witness ==
    /\ pc = "scrape" /\ i = 5 /\ start_index = 0
    /\ file.kind = "truncated" /\ Len(results) = 5

\* a step of the writer at the end of a complete run, over an existing result
\* file, after which the backup is not a copy of that file: the backup step
\* failed
BackupFailed ==
    /\ pc = "finish" /\ pc' # "killed"
    /\ csv.kind # "absent"
    /\ backup' # csv

\* C15: when the backup step of write_results_to_csv fails, the result rows
\* are still written to the result file.
C15_BackupNotFatal ==
    [][BackupFailed =>
        /\ csv'.kind = "table"
        /\ csv'.rows = CsvRows(ids, results)]_vars

\* the outcome recorded for the k-th identifier (None when results is short)
Outcome(k) == IF k <= Len(results) THEN results[k] ELSE None

\* C16: the result file written on completion has exactly one row per
\* identifier, row k carries ids[k], the identifiers stand in the order of the
\* file that was overwritten, and the second cell is "Error" exactly for an
\* unresolved outcome, "0" exactly for class 0 and "1" exactly for class 1.
C16_OutputOrderAndMarker ==
    pc = "cleanup" =>
        /\ csv.kind = "table"
        /\ Len(csv.rows) = Len(ids)
        /\ \A k \in 1..Len(csv.rows) :
             /\ Len(csv.rows[k]) = 2
             /\ csv.rows[k][1] = ids[k]
             /\ csv.rows[k][2] = "Error" <=> Outcome(k) = None
             /\ csv.rows[k][2] = "0" <=> Outcome(k) = 0
             /\ csv.rows[k][2] = "1" <=> Outcome(k) = 1
        /\ backup.kind = "table" => FirstColumn(csv.rows) = FirstColumn(backup.rows)

\* a resumed run completed with all three kinds of outcome in its result
C16_Witness ==
    /\ pc = "cleanup" /\ resume = "y" /\ start_index > 0 /\ start_index < Len(ids)
    /\ \E k \in 1..Len(results) : results[k] = None
    /\ \E k \in 1..Len(results) : results[k] = 0
    /\ \E k \in 1..Len(results) : results[k] = 1

\* the item in hand has been scraped and its result is not yet counted
Scraped == pc \in {"pad", "store", "count"}

\* the texts of the two value cells of the page of the item in hand
PageBBB == Remote(ids[i + 1]).rows[1].value

PageGI == Remote(ids[i + 1]).rows[2].value

\* C17: for every pair of texts extracted from a page the classifier returns
\* a class, never None, and the class is 1 exactly when the permeation is
\* "Yes" and the absorption is "High".
C17_DecisionTable ==
    Scraped =>
        /\ result \in {0, 1}
        /\ result = 1 <=> (PageBBB = "Yes" /\ PageGI = "High")

\* the pair ("Yes", "Low") was classified 0
C17_Witness == Scraped /\ PageBBB = "Yes" /\ PageGI = "Low" /\ result = 0

\* C18: what load_progress reads from the checkpoint save_progress has just
\* written is the state that was saved: the same ids, the same results
\* (0, 1 and None at the same indices) and the same current_index.
C18_RoundTrip ==
    HandlerSaved =>
        LET loaded == load_progress(file) IN
        /\ loaded # NoProgress
        /\ loaded.ids = ids
        /\ PyList(loaded.results) = results
        /\ loaded.current_index = save_index
        /\ loaded.current_index = Len(results) - 1

\* a state with all three kinds of outcome was saved
C18_Witness ==
    /\ HandlerSaved /\ runs = 1
    /\ \E k \in 1..Len(results) : results[k] = None
    /\ \E k \in 1..Len(results) : results[k] = 0
    /\ \E k \in 1..Len(results) : results[k] = 1

\* the step that ends a run that completed fully
CompleteExit == pc = "cleanup" /\ pc' = "exited"

\* the step that ends a run that was interrupted and whose handler saved the
\* checkpoint
PartialExit == pc = "prompt" /\ save_status = "saved" /\ pc' = "exited"

\* C19 (as stated): a run that completed fully ends with status 0 (the end
\* of main) and an interrupted run that saved its checkpoint ends with another
\* status.
C19_ExitCodesDiffer ==
    [][/\ CompleteExit => exit_code' = 0
       /\ PartialExit => exit_code' # 0]_vars

\* C19 (amended): both runs end with status 0: the completed run at the end of
\* main, the interrupted one by the handler's return; the interrupted run
\* ends with status 1 only when writing the partial result failed (the result
\* file is then untouched or emptied).
C19_SameExitStatus ==
    [][/\ CompleteExit => exit_code' = 0
       /\ PartialExit =>
            \/ exit_code' = 0
            \/ exit_code' = 1 /\ csv' \in {csv, EmptyCsv}]_vars

\* the first run was interrupted, left its checkpoint and ended with status 0
C19_Witness == pc = "exited" /\ runs = 1 /\ exit_code = 0 /\ file.kind = "json"

\* C20: while the identifier file is missing or has no header line, no run
\* issues a fetch: the process ends at its start-up, before any work.
C20_InputErrorFatal == ~CsvReadable(csv) => fetched = <<>>

\* an item has just been completed: stored and counted, the next not begun
AfterItem ==
    /\ pc \in {"save_check", "save_open", "save_dump", "sleep"}
    /\ save_caller # "handler"

\* C22: within one run the loop takes the indices start_index, start_index + 1,
\* ... in this order, each once (the requests of the run are exactly these, one
\* at a time); after every item successful_scrapes + failed_scrapes =
\* len(results) = i + 1; and when the loop has ended every index up to
\* len(ids) - 1 was taken and the counters sum to len(ids).
C22_LoopOrderAndCounters ==
    /\ \A j \in 1..Len(fetched) : fetched[j] = start_index + j - 1
    /\ pc = "inflight" => fetched[Len(fetched)] = i
    /\ AfterItem =>
         /\ Len(fetched) = i + 1 - start_index
         /\ successful_scrapes + failed_scrapes = Len(results)
         /\ Len(results) = i + 1
    /\ pc \in {"finish", "cleanup"} =>
         /\ start_index + Len(fetched) = Len(ids)
         /\ successful_scrapes + failed_scrapes = Len(ids)

\* a resumed run has completed its second item
C22_Witness ==
    /\ pc = "sleep" /\ resume = "y" /\ start_index > 0 /\ i = start_index + 1
    /\ successful_scrapes > 0 /\ failed_scrapes > 0

\* the indices up to the adopted cursor whose adopted outcome is None
AdoptedUnresolved ==
    {k \in 0..progress.current_index : PyValue(progress.results[k + 1]) = None}

\* C23: a resumed run starts at current_index + 1 and requests no index at or
\* below the adopted cursor, also when the adopted outcome of that index is
\* None; in the result it writes on completion every such index carries
\* "Error".
C23_UnresolvedNotRetried ==
    (resume = "y" /\ pc \notin {"decide"} \cup StoppedPcs) =>
        /\ start_index = progress.current_index + 1
        /\ \A k \in FetchedSet : k > progress.current_index
        /\ \A k \in AdoptedUnresolved : results[k + 1] = None
        /\ pc = "cleanup" => \A k \in AdoptedUnresolved : csv.rows[k + 1][2] = "Error"

\* a resumed run that adopted an unresolved item has fetched the rest and
\* written its result
C23_Witness ==
    /\ pc = "cleanup" /\ resume = "y"
    /\ AdoptedUnresolved # {}
    /\ fetched # <<>>

\* the result file holds the rows of the run's results
ResultWritten(f) == f = [kind |-> "table", rows |-> CsvRows(ids, results)]

\* the step of write_results_to_csv at the end of a complete run
FinalWrite == pc = "finish" /\ pc' # "killed"

\* C24 (as stated): on the completion path the checkpoint is removed only
\* after the result was written; a failed write ends the process with status 1
\* and leaves the checkpoint in place, and that checkpoint carries the cursor
\* of a periodic save.
C24_KeptWithPeriodicCursor ==
    [][/\ (Removed /\ pc \in {"finish", "cleanup"}) => (pc = "cleanup" /\ ResultWritten(csv))
       /\ (FinalWrite /\ pc' = "exited") =>
            /\ exit_code' = 1
            /\ file' = file
            /\ file.kind = "json" => IsSavePoint(file.current_index)]_vars

\* C24 (amended): on the completion path the checkpoint is removed only after
\* the result was written; a failed write ends the process with status 1 and
\* leaves the checkpoint file as it was: if it is a complete document, it
\* carries the cursor of the last save that succeeded, periodic or not, or of
\* the checkpoint the run resumed from.
C24_KeptAsItWas ==
    [][/\ (Removed /\ pc \in {"finish", "cleanup"}) => (pc = "cleanup" /\ ResultWritten(csv))
       /\ (FinalWrite /\ pc' = "cleanup") => ResultWritten(csv')
       /\ (FinalWrite /\ pc' = "exited") =>
            /\ exit_code' = 1
            /\ ~ResultWritten(csv') \/ csv' = csv
            /\ file' = file
            /\ file.kind = "json" =>
                  /\ cursors # <<>>
                  /\ file.current_index = cursors[Len(cursors)]]_vars

\* the result of a run over five or more identifiers is written and the
\* checkpoint of the periodic save is still on disk, about to be removed
C24_Witness ==
    /\ pc = "cleanup" /\ Len(ids) >= K
    /\ ResultWritten(csv)
    /\ file.kind = "json"

\* the process is in the loop of main, outside the interrupt handler
LoopRunning == pc \in TryPcs \cup SavePcs /\ save_caller # "handler"

\* the number of items completed (fetched and stored in results), over all
\* runs: the indices below it are done
Done == IF pc \in {"scrape", "inflight", "pad", "store"} THEN i ELSE i + 1

\* the indices of this run for which save_progress was called and has returned
SavesReturned ==
    {k \in start_index..(IF pc \in {"sleep", "loop"} THEN i ELSE i - 1) : IsSavePoint(k)}

\* every periodic save of this run so far has succeeded
AllSavesSucceeded == \A k \in SavesReturned : \E j \in 1..Len(cursors) : cursors[j] = k

\* the cursor a resume would find on disk (-1: no usable checkpoint)
SavedCursor == IF file.kind = "json" THEN file.current_index ELSE -1

\* C25 (as stated): while every periodic save so far has succeeded, at every
\* point of the loop the cursor on disk is at least 5 * floor(j / 5) - 1 for
\* the j items completed, so at most 4 completed items are missing from the
\* checkpoint.
C25_AtMostFourMissing ==
    (LoopRunning /\ AllSavesSucceeded) =>
        /\ SavedCursor >= K * (Done \div K) - 1
        /\ Done - (SavedCursor + 1) <= K - 1

\* C25 (amended): while every periodic save so far has succeeded, the cursor
\* on disk is at least 5 * floor(j / 5) - 1 and at most 4 completed items are
\* missing at every point outside the save of a fifth item; from the storing
\* of that fifth item until save_progress opens the file 5 items are missing;
\* and while save_progress is writing, the file is truncated and no completed
\* item is on disk at all.
C25_BoundedLossOutsideSave ==
    (LoopRunning /\ AllSavesSucceeded) =>
        /\ pc \notin {"count", "save_check", "save_open", "save_dump"} =>
              /\ SavedCursor >= K * (Done \div K) - 1
              /\ Done - (SavedCursor + 1) <= K - 1
        /\ pc \in {"count", "save_check", "save_open"} =>
              Done - (SavedCursor + 1) <= K
        /\ pc = "save_dump" => (file.kind = "truncated" /\ SavedCursor = -1)

\* the tenth item is stored and the checkpoint on disk is that of the fifth
C25_Witness ==
    /\ pc = "save_check" /\ start_index = 0 /\ i = 2 * K - 1
    /\ file.kind = "json" /\ file.current_index = K - 1

\* the page of the molecule process_id was just called for
Rule5Response == RemoteRule5(df[Selected[r5_pos + 1]].id)

\* the texts of the rows of that page that name Lipinski's rule of 5 and have
\* a value cell, in page order
RECURSIVE LipinskiValues(_)
LipinskiValues(rows) ==
    IF rows = <<>> THEN <<>>
    ELSE IF Head(rows).cells >= 3 /\ NamesLipinski(Head(rows).name)
         THEN <<Head(rows).value>> \o LipinskiValues(Tail(rows))
         ELSE LipinskiValues(Tail(rows))

\* the first of these texts that is one of the given verdict texts, or
\* NoText when there is none (also when the request failed)
FirstVerdict(texts) ==
    LET values == IF Rule5Response.status = "ok"
                  THEN LipinskiValues(Rule5Response.rows) ELSE <<>>
        hits == {k \in 1..Len(values) : values[k] \in texts}
    IN IF hits = {} THEN NoText
       ELSE values[CHOOSE k \in hits : \A h \in hits : k <= h]

\* C21 (as stated): the rule value is 1 when the row's value is "Passed", 0
\* when it is "Failed", and None for anything else, including a page without
\* such a row.
C21_ExactTable ==
    r5_pc = "append" =>
        LET verdict == FirstVerdict({"Passed", "Failed"}) IN
        /\ rule_val = 1 <=> verdict = "Passed"
        /\ rule_val = 0 <=> verdict = "Failed"
        /\ rule_val = None <=> verdict = NoText

\* C21 (amended): the value is compared without regard to case: the rule
\* value is 1 when the first Lipinski row whose value reads passed or failed
\* in any case reads passed, 0 when it reads failed, and None when no row has
\* such a value, when there is no such row and when the request failed.
C21_CaseInsensitiveTable ==
    r5_pc = "append" =>
        LET verdict == FirstVerdict({"Passed", "PASSED", "passed", "Failed", "FAILED", "failed"}) IN
        /\ rule_val = 1 <=> verdict \in {"Passed", "PASSED", "passed"}
        /\ rule_val = 0 <=> verdict \in {"Failed", "FAILED", "failed"}
        /\ rule_val = None <=> verdict = NoText

\* a page whose row reads "FAILED" was given the rule value 0
C21_Witness ==
    /\ r5_pc = "append" /\ rule_val = 0
    /\ Rule5Response.status = "ok"
    /\ LipinskiValues(Rule5Response.rows) = <<"FAILED">>

====
